---- MODULE Spec2Model ----
(***************************************************************************)
(* State-machine model of the Streamlit document analyzer: engine.py       *)
(* (initialize_client, upload_document, process_document,                  *)
(* delete_uploaded_file) driven by app.py (main, chat_with_document).      *)
(* One action is one UI event, i.e. one complete run of main() together    *)
(* with the script rerun that st.rerun() requests.                         *)
(***************************************************************************)
EXTENDS Integers, Sequences, FiniteSets, TLC

\* ---------------------------------------------------------------- bounds
\* number of distinct documents (name + content) the user can pick
NumBlobs == 2
\* longest message history a chat turn may still extend
MaxMsgs == 3
\* number of sessions that run upload_document at the same time
NumSessions == 2
\* number of clients document_analyzer_app.py constructs (one per session)
MaxClients == 2

\* ------------------------------------------------------------- constants
None == 0              \* Python None for file handles / clients / blobs
Miss == -1             \* no entry in the upload cache

Missing == "<missing>"                 \* st.secrets has no GEMINI_API_KEY
ValidKey == "valid-key"
SecretValues == {Missing, "", "YOUR_ACTUAL_API_KEY", ValidKey}

NoneText == "<None>"                   \* Python None where a text is expected
KeyErrorMsg == "KEY not found in Streamlit secrets."
InitErrorMsg == "Error initializing Gemini Client"
Fallback == "Failed to get response from Gemini."
Greeting == "Document analysis ready! Ask me any question about the content."
ResponseText == "T1"
Prompts == {"summarize"}

Blobs == 1..NumBlobs
\* uploaded_file_obj.name: blobs 1 and 3 carry the same file name
BlobName(b) == IF b % 2 = 1 THEN "report.pdf" ELSE "notes.txt"

\* the files that sessions upload at the same time: 1 and 3 share a name
ConcBlobs == 1..(NumBlobs + 1)
FileNames == {BlobName(b) : b \in ConcBlobs}
Sessions == 1..NumSessions

\* no directory entry: owner is the session whose open() created the file
NoFile == [owner |-> None, data |-> None]

Outcomes == {"ok", "raise"}            \* what a remote call can do
GenOutcomes == {"ok", "none", "raise"} \* response.text may also be None

VARIABLES
    secret,               \* st.secrets["GEMINI_API_KEY"] (Missing if absent)
    clientCache,          \* st.cache_resource entry of initialize_client
    ctorCalls,            \* number of genai.Client(...) constructions
    uploadCache,          \* st.cache_resource entries of upload_document
    nextId,               \* next fresh remote file name
    keys,                 \* keys present in st.session_state
    uploaded_file_object, \* st.session_state.uploaded_file_object
    cleanup_done,         \* st.session_state.cleanup_done
    messages,             \* st.session_state.messages
    uploaded_file_input,  \* value of the file_uploader widget
    page,                 \* what the last script run rendered
    tempDir,              \* temp_uploads exists
    tempFiles,            \* files inside temp_uploads
    calls,                \* remote requests issued by the last event, in order
    uploaded,             \* remote files created by this session
    deleteAttempted,      \* handles a delete request was issued for
    ev,                   \* the last event and what main() saw during it
    fileData,             \* content of the files inside temp_uploads
    threads,              \* sessions inside upload_document, statement by
                          \* statement
    client,               \* st.session_state.client (document_analyzer_app)
    client_error,         \* st.session_state.client_error (likewise)
    deleteCache           \* st.cache_resource entries of delete_uploaded_file
                          \* (document_analyzer_app)

vars == <<secret, clientCache, ctorCalls, uploadCache, nextId, keys,
          uploaded_file_object, cleanup_done, messages, uploaded_file_input,
          page, tempDir, tempFiles, calls, uploaded, deleteAttempted, ev,
          fileData, threads, client, client_error, deleteCache>>

\* the whole state as one record, so that main() can be written as a function
Cur ==
    [secret |-> secret, clientCache |-> clientCache, ctorCalls |-> ctorCalls,
     uploadCache |-> uploadCache, nextId |-> nextId, keys |-> keys,
     uploaded_file_object |-> uploaded_file_object,
     cleanup_done |-> cleanup_done, messages |-> messages,
     uploaded_file_input |-> uploaded_file_input, page |-> page,
     tempDir |-> tempDir, tempFiles |-> tempFiles, calls |-> calls,
     uploaded |-> uploaded, deleteAttempted |-> deleteAttempted, ev |-> ev,
     client |-> client, client_error |-> client_error,
     deleteCache |-> deleteCache]

Msg(role, content) == [role |-> role, content |-> content]

Call(op, h, blob, path, prompt, res) ==
    [op |-> op, h |-> h, blob |-> blob, path |-> path, prompt |-> prompt,
     res |-> res]

Truthy(x) == x # None

\* ------------------------------------------------------------- engine.py

\* variant: only the named placeholder is rejected, the empty key is not
IsPlaceholder_nonempty(api_key) == api_key = "YOUR_ACTUAL_API_KEY"

IsPlaceholder(api_key) == api_key \in {"YOUR_ACTUAL_API_KEY", ""}

\* body of initialize_client; n is the number of constructions so far and
\* a constructed client is identified by its construction number
initialize_client_body(api_key, ctor, n) ==
    IF api_key = Missing \/ IsPlaceholder(api_key)
    THEN [client |-> None, err |-> KeyErrorMsg, ctorCalls |-> n]
    ELSE IF ctor = "ok"
         THEN [client |-> n + 1, err |-> NoneText, ctorCalls |-> n + 1]
         ELSE [client |-> None, err |-> InitErrorMsg, ctorCalls |-> n + 1]

\* variant: initialize_client without the st.cache_resource decorator
ClientCacheHit_never(cache) == FALSE

ClientCacheHit(cache) == cache.present

\* initialize_client as main() calls it: the st.cache_resource wrapper
initialize_client(cache, api_key, ctor, n) ==
    IF ClientCacheHit(cache)
    THEN [client |-> cache.client, err |-> cache.err, ctorCalls |-> n,
          cache |-> cache, ran |-> FALSE]
    ELSE LET r == initialize_client_body(api_key, ctor, n)
         IN [client |-> r.client, err |-> r.err, ctorCalls |-> r.ctorCalls,
             cache |-> [present |-> TRUE, client |-> r.client, err |-> r.err],
             ran |-> TRUE]

\* variant: the removal sits at the end of the try block, not in finally
remove_on_success_only(files, path, out) ==
    IF out = "ok" THEN files \ {path} ELSE files

\* the finally block of upload_document: os.remove(temp_file_path)
finally_remove(files, path, out) == files \ {path}

\* variant: the except block hands back a file object instead of None
upload_document_body_stale(b, out, id, files) ==
    LET path == BlobName(b)
        left == finally_remove(files \cup {path}, path, out)
    IN [file_obj |-> id,
        calls |-> <<Call("upload", id, b, path, "", out)>>,
        nextId |-> id + 1,
        created |-> IF out = "ok" THEN {id} ELSE {},
        tempFiles |-> left,
        tempDir |-> left # {}]

\* body of upload_document
upload_document_body(b, out, id, files) ==
    LET path == BlobName(b)
        written == files \cup {path}
        file_obj == IF out = "ok" THEN id ELSE None
        left == finally_remove(written, path, out)
    IN [file_obj |-> file_obj,
        calls |-> <<Call("upload", file_obj, b, path, "", out)>>,
        nextId |-> IF out = "ok" THEN id + 1 ELSE id,
        created |-> IF out = "ok" THEN {id} ELSE {},
        tempFiles |-> left,
        tempDir |-> left # {}]

\* variant: upload_document without the st.cache_resource decorator
UploadCacheHit_never(cache, b) == FALSE

UploadCacheHit(cache, b) == cache[b] # Miss

\* upload_document as main() calls it: the st.cache_resource wrapper, keyed
\* by the uploaded file (name and content); the client argument is not hashed
upload_document(cache, b, out, id, dir, files) ==
    IF UploadCacheHit(cache, b)
    THEN [file_obj |-> cache[b], calls |-> <<>>, nextId |-> id,
          created |-> {}, tempFiles |-> files, tempDir |-> dir,
          cache |-> cache, ran |-> FALSE]
    ELSE LET r == upload_document_body(b, out, id, files)
         IN [file_obj |-> r.file_obj, calls |-> r.calls, nextId |-> r.nextId,
             created |-> r.created, tempFiles |-> r.tempFiles,
             tempDir |-> r.tempDir,
             cache |-> [cache EXCEPT ![b] = r.file_obj], ran |-> TRUE]

\* variant: a failed generation request is sent a second time
process_document_retry(h, prompt, out) ==
    [calls |-> IF out = "raise"
               THEN <<Call("generate", h, None, "", prompt, out),
                      Call("generate", h, None, "", prompt, out)>>
               ELSE <<Call("generate", h, None, "", prompt, out)>>,
     response |-> IF out = "raise" THEN Fallback
                  ELSE IF out = "none" THEN NoneText ELSE ResponseText]

\* variant: the except block returns nothing
process_document_none(h, prompt, out) ==
    [calls |-> <<Call("generate", h, None, "", prompt, out)>>,
     response |-> IF out = "ok" THEN ResponseText ELSE NoneText]

process_document(h, prompt, out) ==
    [calls |-> <<Call("generate", h, None, "", prompt, out)>>,
     response |-> IF out = "raise" THEN Fallback
                  ELSE IF out = "none" THEN NoneText ELSE ResponseText]

\* variant: a failed delete request is sent a second time
delete_uploaded_file_retry(h, out) ==
    [calls |-> IF out = "raise"
               THEN <<Call("delete", h, None, "", "", out),
                      Call("delete", h, None, "", "", out)>>
               ELSE <<Call("delete", h, None, "", "", out)>>,
     raised |-> FALSE]

\* variant: no try/except around the delete request
delete_uploaded_file_raising(h, out) ==
    [calls |-> <<Call("delete", h, None, "", "", out)>>,
     raised |-> out = "raise"]

delete_uploaded_file(h, out) ==
    [calls |-> <<Call("delete", h, None, "", "", out)>>, raised |-> FALSE]

\* ---------------------------------------------------------------- app.py

\* variant: the previous file is not cleaned up before a new upload
ShouldDeletePrevious_never(file_obj) == FALSE

\* `if st.session_state.uploaded_file_object:` before the upload (line 95)
ShouldDeletePrevious(file_obj) == Truthy(file_obj)

\* variant: the result of upload_document is stored without the check
UploadCompleted_always(file_obj) == TRUE

\* `if file_obj:` after the upload (line 102)
UploadCompleted(file_obj) == Truthy(file_obj)

\* variant: a chat turn stores only its own two messages
chat_with_document_last_turn(w, e) ==
    IF "uploaded_file_object" \notin w.keys \/ w.uploaded_file_object = None
    THEN w
    ELSE IF e.kind # "chat"
         THEN w
         ELSE LET g == process_document(w.uploaded_file_object, e.prompt,
                                        e.gen)
              IN [w EXCEPT
                    !.keys = @ \cup {"messages"},
                    !.messages = <<Msg("user", e.prompt),
                                   Msg("assistant", g.response)>>,
                    !.calls = @ \o g.calls]

\* chat_with_document(client); e.kind = "chat" means chat_input returned
\* the prompt e.prompt in this run
chat_with_document(w, e) ==
    IF "uploaded_file_object" \notin w.keys \/ w.uploaded_file_object = None
    THEN w
    ELSE LET w1 == IF "messages" \notin w.keys
                   THEN [w EXCEPT !.keys = @ \cup {"messages"},
                                  !.messages = <<Msg("assistant", Greeting)>>]
                   ELSE w
         IN IF e.kind # "chat"
            THEN w1
            ELSE LET file_obj == w1.uploaded_file_object
                     g == process_document(file_obj, e.prompt, e.gen)
                 IN [w1 EXCEPT
                       !.messages = (@ \o <<Msg("user", e.prompt)>>)
                                       \o <<Msg("assistant", g.response)>>,
                       !.calls = @ \o g.calls]

\* the "Process Document" branch of main (lines 93-108), then the rest of
\* the script when no rerun was requested
ProcessClicked(w, e) ==
    LET prev == w.uploaded_file_object
        del == ShouldDeletePrevious(prev)
        d == IF del THEN delete_uploaded_file(prev, e.del)
             ELSE [calls |-> <<>>, raised |-> FALSE]
        w1 == [w EXCEPT !.calls = @ \o d.calls,
                        !.deleteAttempted = IF del THEN @ \cup {prev} ELSE @,
                        !.ev.deletedBefore = del /\ prev \in w.deleteAttempted]
    IN IF d.raised
       THEN [w |-> [w1 EXCEPT !.ev.aborted = TRUE], rerun |-> FALSE]
       ELSE
       LET u == upload_document(w1.uploadCache, w1.uploaded_file_input, e.up,
                                w1.nextId, w1.tempDir, w1.tempFiles)
           w2 == [w1 EXCEPT !.calls = @ \o u.calls,
                            !.uploadCache = u.cache,
                            !.nextId = u.nextId,
                            !.uploaded = @ \cup u.created,
                            !.tempDir = u.tempDir,
                            !.tempFiles = u.tempFiles,
                            !.ev.file_obj = u.file_obj,
                            !.ev.uploadCalled = TRUE,
                            !.ev.uploadRan = u.ran]
       IN IF UploadCompleted(u.file_obj)
          THEN [w |-> [w2 EXCEPT !.uploaded_file_object = u.file_obj,
                                 !.keys = @ \cup {"messages"},
                                 !.messages = <<>>,
                                 !.cleanup_done = FALSE],
                rerun |-> TRUE]
          ELSE [w |-> chat_with_document(w2, e), rerun |-> FALSE]

\* variant: the session state is reset only when the delete request worked
ManualDeleteClicked_on_success(w, e) ==
    LET prev == w.uploaded_file_object
        d == delete_uploaded_file(prev, e.del)
        w1 == [w EXCEPT !.calls = @ \o d.calls,
                        !.deleteAttempted = @ \cup {prev},
                        !.ev.deletedBefore = prev \in w.deleteAttempted]
    IN IF e.del = "raise"
       THEN [w |-> w1, rerun |-> TRUE]
       ELSE [w |-> [w1 EXCEPT !.uploaded_file_object = None,
                              !.cleanup_done = TRUE,
                              !.keys = @ \cup {"messages"},
                              !.messages = <<>>],
             rerun |-> TRUE]

\* the "Manually Delete File from API" branch of main (lines 115-123)
ManualDeleteClicked(w, e) ==
    LET prev == w.uploaded_file_object
        d == delete_uploaded_file(prev, e.del)
        w1 == [w EXCEPT !.calls = @ \o d.calls,
                        !.deleteAttempted = @ \cup {prev},
                        !.ev.deletedBefore = prev \in w.deleteAttempted]
    IN IF d.raised
       THEN [w |-> [w1 EXCEPT !.ev.aborted = TRUE], rerun |-> FALSE]
       ELSE [w |-> [w1 EXCEPT !.uploaded_file_object = None,
                              !.cleanup_done = TRUE,
                              !.keys = @ \cup {"messages"},
                              !.messages = <<>>],
             rerun |-> TRUE]

\* one run of the script main(); rerun says that st.rerun() ended it
MainBody(w, e) ==
    LET ic == initialize_client(w.clientCache, w.secret, e.ctor, w.ctorCalls)
        w0 == [w EXCEPT !.clientCache = ic.cache,
                        !.ctorCalls = ic.ctorCalls,
                        !.ev.client = ic.client,
                        !.ev.err = ic.err,
                        !.ev.initRan = @ \/ ic.ran]
    IN IF ic.client = None
       THEN [w |-> [w0 EXCEPT !.page = "error"], rerun |-> FALSE]
       ELSE
       LET w1 == [w0 EXCEPT
                    !.keys = @ \cup {"uploaded_file_object", "cleanup_done"},
                    !.uploaded_file_object =
                        IF "uploaded_file_object" \in w0.keys THEN @ ELSE None,
                    !.cleanup_done =
                        IF "cleanup_done" \in w0.keys THEN @ ELSE FALSE,
                    !.uploaded_file_input =
                        IF e.kind = "select" THEN e.blob ELSE @,
                    !.page = "ui"]
       IN IF e.kind = "process" /\ w1.uploaded_file_input # None
          THEN ProcessClicked(w1, e)
          ELSE IF e.kind = "delete" /\ Truthy(w1.uploaded_file_object)
                  /\ ~w1.cleanup_done
               THEN ManualDeleteClicked(w1, e)
               ELSE [w |-> chat_with_document(w1, e), rerun |-> FALSE]

\* a script run that no widget triggered (the run st.rerun() starts)
Plain(e) == [e EXCEPT !.kind = "rerun"]

\* one UI event: main(), and main() again when st.rerun() was called
main(w, e) ==
    LET r == MainBody(w, e)
    IN IF r.rerun THEN MainBody(r.w, Plain(e)).w ELSE r.w

\* ------------------------------------------------------------ the machine

\* a session that is not inside upload_document
Idle ==
    [pc |-> "idle", blob |-> None, fd |-> None, called |-> FALSE,
     sent |-> None, file_obj |-> None]

\* an event as main() sees it: the widget that fired and what the remote
\* service will answer to each request of this run
Event(kind, blob, prompt, ctor, del, up, gen) ==
    [kind |-> kind, blob |-> blob, prompt |-> prompt, ctor |-> ctor,
     del |-> del, up |-> up, gen |-> gen]

\* what is remembered about an event for the properties below
Observed(kind) ==
    [kind |-> kind,
     prev_file |-> uploaded_file_object,
     initRan |-> FALSE,
     client |-> None,
     err |-> NoneText,
     file_obj |-> None,
     deletedBefore |-> FALSE,
     uploadCalled |-> FALSE,
     uploadRan |-> FALSE,
     aborted |-> FALSE]

\* the constructor is only reached when the cache has no entry
CtorOutcomes == IF ClientCacheHit(clientCache) THEN {"ok"} ELSE Outcomes

Apply(w) ==
    /\ clientCache' = w.clientCache
    /\ ctorCalls' = w.ctorCalls
    /\ uploadCache' = w.uploadCache
    /\ nextId' = w.nextId
    /\ keys' = w.keys
    /\ uploaded_file_object' = w.uploaded_file_object
    /\ cleanup_done' = w.cleanup_done
    /\ messages' = w.messages
    /\ uploaded_file_input' = w.uploaded_file_input
    /\ page' = w.page
    /\ tempDir' = w.tempDir
    /\ tempFiles' = w.tempFiles
    /\ calls' = w.calls
    /\ uploaded' = w.uploaded
    /\ deleteAttempted' = w.deleteAttempted
    /\ ev' = w.ev
    /\ client' = w.client
    /\ client_error' = w.client_error
    /\ deleteCache' = w.deleteCache
    /\ UNCHANGED <<secret, fileData, threads>>

Start(kind) == [Cur EXCEPT !.calls = <<>>, !.ev = Observed(kind)]

Init ==
    /\ secret \in SecretValues
    /\ clientCache = [present |-> FALSE, client |-> None, err |-> NoneText]
    /\ ctorCalls = 0
    /\ uploadCache = [b \in Blobs |-> Miss]
    /\ nextId = 1
    /\ keys = {}
    /\ uploaded_file_object = None
    /\ cleanup_done = FALSE
    /\ messages = <<>>
    /\ uploaded_file_input = None
    /\ page = "none"
    /\ tempDir = FALSE
    /\ tempFiles = {}
    /\ calls = <<>>
    /\ uploaded = {}
    /\ deleteAttempted = {}
    /\ ev = Observed("none")
    /\ fileData = [n \in FileNames |-> NoFile]
    /\ threads = [t \in Sessions |-> Idle]
    /\ client = None
    /\ client_error = NoneText
    /\ deleteCache = {}

\* the secrets file is edited while the process runs
SecretChange ==
    /\ \E v \in SecretValues \ {secret} : secret' = v
    /\ UNCHANGED <<clientCache, ctorCalls, uploadCache, nextId, keys,
                   uploaded_file_object, cleanup_done, messages,
                   uploaded_file_input, page, tempDir, tempFiles, calls,
                   uploaded, deleteAttempted, ev, fileData, threads, client,
                   client_error, deleteCache>>

\* a browser opens the page: a new session with an empty st.session_state,
\* in the same process (the st.cache_resource caches are kept)
NewSession ==
    \E ctor \in CtorOutcomes :
        Apply(main([Start("session") EXCEPT
                        !.keys = {}, !.uploaded_file_object = None,
                        !.cleanup_done = FALSE, !.messages = <<>>,
                        !.uploaded_file_input = None, !.uploaded = {},
                        !.page = "none"],
                   Event("rerun", None, "", ctor, "ok", "ok", "ok")))

\* the script is rerun in the running session without any widget firing
Rerun ==
    /\ page # "none"
    /\ \E ctor \in CtorOutcomes :
        Apply(main(Start("rerun"),
                   Event("rerun", None, "", ctor, "ok", "ok", "ok")))

\* the user picks a file in the file_uploader, or clears it (b = None)
SelectFile ==
    /\ page = "ui"
    /\ \E b \in (Blobs \cup {None}) \ {uploaded_file_input},
          ctor \in CtorOutcomes :
        Apply(main(Start("select"),
                   Event("select", b, "", ctor, "ok", "ok", "ok")))

\* the user clicks "Process Document" (rendered only with a file picked)
ProcessDocument ==
    /\ page = "ui"
    /\ uploaded_file_input # None
    /\ \E ctor \in CtorOutcomes, del \in Outcomes, up \in Outcomes :
        Apply(main(Start("process"),
                   Event("process", uploaded_file_input, "", ctor, del, up,
                         "ok")))

\* the user submits a prompt in the chat input (rendered only with a handle)
ChatTurn ==
    /\ page = "ui"
    /\ uploaded_file_object # None
    /\ Len(messages) < MaxMsgs
    /\ \E p \in Prompts, ctor \in CtorOutcomes, gen \in GenOutcomes :
        Apply(main(Start("chat"),
                   Event("chat", None, p, ctor, "ok", "ok", gen)))

\* the user clicks "Manually Delete File from API"
ManualDelete ==
    /\ page = "ui"
    /\ uploaded_file_object # None
    /\ ~cleanup_done
    /\ \E ctor \in CtorOutcomes, del \in Outcomes :
        Apply(main(Start("delete"),
                   Event("delete", None, "", ctor, del, "ok", "ok")))

Next ==
    \/ SecretChange
    \/ NewSession
    \/ Rerun
    \/ SelectFile
    \/ ProcessDocument
    \/ ChatTurn
    \/ ManualDelete

Spec == Init /\ [][Next]_vars

\* --------------------------------- upload_document, statement by statement
\* Each session runs its script in a thread of its own, and st.cache_resource
\* serialises only invocations with the same key, so sessions that process
\* different files are inside the body of upload_document together.

\* what the sessions and main() do not touch while uploads are running
sessionVars ==
    <<secret, clientCache, ctorCalls, keys, uploaded_file_object,
      cleanup_done, messages, uploaded_file_input, page, calls, uploaded,
      deleteAttempted, ev, client, client_error, deleteCache>>

\* temp_file_path = temp_dir / file_name (engine.py:42-45)
PathOf(t) == BlobName(threads[t].blob)

Goto(t, pc) == threads' = [threads EXCEPT ![t].pc = pc]

\* the client is built, and every session has picked a file of its own and
\* clicked Process Document; none of the files is in the upload cache
InitUpload ==
    /\ secret = ValidKey
    /\ clientCache = [present |-> TRUE, client |-> 1, err |-> NoneText]
    /\ ctorCalls = 1
    /\ uploadCache = [b \in ConcBlobs |-> Miss]
    /\ nextId = 1
    /\ keys = {"uploaded_file_object", "cleanup_done"}
    /\ uploaded_file_object = None
    /\ cleanup_done = FALSE
    /\ messages = <<>>
    /\ uploaded_file_input = None
    /\ page = "ui"
    /\ tempDir = FALSE
    /\ tempFiles = {}
    /\ calls = <<>>
    /\ uploaded = {}
    /\ deleteAttempted = {}
    /\ ev = Observed("process")
    /\ fileData = [n \in FileNames |-> NoFile]
    /\ client = None
    /\ client_error = NoneText
    /\ deleteCache = {}
    /\ \E f \in [Sessions -> ConcBlobs] :
          /\ \A t1, t2 \in Sessions : t1 # t2 => f[t1] # f[t2]
          /\ threads = [t \in Sessions |->
                            [Idle EXCEPT !.pc = "mkdir", !.blob = f[t]]]

\* temp_dir.mkdir(exist_ok=True) (engine.py:44)
UpMkdir(t) ==
    /\ threads[t].pc = "mkdir"
    /\ tempDir' = TRUE
    /\ Goto(t, "open")
    /\ UNCHANGED <<sessionVars, uploadCache, nextId, tempFiles, fileData>>

\* open(temp_file_path, "wb") (engine.py:47): creates or truncates the
\* file; raises, outside the try, when the directory is gone
UpOpen(t) ==
    /\ threads[t].pc = "open"
    /\ IF ~tempDir
       THEN /\ Goto(t, "raised")
            /\ UNCHANGED <<tempFiles, fileData>>
       ELSE LET path == PathOf(t)
                owner == IF path \in tempFiles
                         THEN fileData[path].owner ELSE t
            IN /\ tempFiles' = tempFiles \cup {path}
               /\ fileData' = [fileData EXCEPT
                                  ![path] = [owner |-> owner, data |-> None]]
               /\ threads' = [threads EXCEPT ![t].pc = "write",
                                              ![t].fd = owner]
    /\ UNCHANGED <<sessionVars, uploadCache, nextId, tempDir>>

\* f.write(uploaded_file_obj.getbuffer()) and the close (engine.py:48): the
\* bytes go to the file that was opened, which may be unlinked by now
UpWrite(t) ==
    /\ threads[t].pc = "write"
    /\ LET path == PathOf(t)
       IN fileData' =
              IF path \in tempFiles /\ fileData[path].owner = threads[t].fd
              THEN [fileData EXCEPT ![path].data = threads[t].blob]
              ELSE fileData
    /\ Goto(t, "upload")
    /\ UNCHANGED <<sessionVars, uploadCache, nextId, tempDir, tempFiles>>

\* _client.files.upload(file=str(temp_file_path)) inside the try
\* (engine.py:50-58): sends what the path holds now; a missing file or a
\* failing request is caught and gives None
UpUpload(t) ==
    /\ threads[t].pc = "upload"
    /\ \E out \in Outcomes :
          LET path == PathOf(t)
              there == path \in tempFiles
              ok == there /\ out = "ok"
          IN /\ threads' = [threads EXCEPT
                     ![t].pc = "remove",
                     ![t].called = TRUE,
                     ![t].sent = IF there THEN fileData[path].data ELSE None,
                     ![t].file_obj = IF ok THEN nextId ELSE None]
             /\ nextId' = IF ok THEN nextId + 1 ELSE nextId
    /\ UNCHANGED <<sessionVars, uploadCache, tempDir, tempFiles, fileData>>

\* finally: os.remove(temp_file_path) (engine.py:61)
UpRemove(t) ==
    /\ threads[t].pc = "remove"
    /\ LET path == PathOf(t)
       IN IF path \notin tempFiles
          THEN /\ Goto(t, "raised")
               /\ UNCHANGED <<tempFiles, fileData>>
          ELSE /\ tempFiles' = tempFiles \ {path}
               /\ fileData' = [fileData EXCEPT ![path] = NoFile]
               /\ Goto(t, "listdir")
    /\ UNCHANGED <<sessionVars, uploadCache, nextId, tempDir>>

\* finally: if not os.listdir(temp_dir) (engine.py:62)
UpListdir(t) ==
    /\ threads[t].pc = "listdir"
    /\ IF ~tempDir
       THEN Goto(t, "raised")
       ELSE Goto(t, IF tempFiles = {} THEN "rmdir" ELSE "return")
    /\ UNCHANGED <<sessionVars, uploadCache, nextId, tempDir, tempFiles,
                   fileData>>

\* finally: os.rmdir(temp_dir) (engine.py:63)
UpRmdir(t) ==
    /\ threads[t].pc = "rmdir"
    /\ IF ~tempDir \/ tempFiles # {}
       THEN /\ Goto(t, "raised")
            /\ UNCHANGED tempDir
       ELSE /\ tempDir' = FALSE
            /\ Goto(t, "return")
    /\ UNCHANGED <<sessionVars, uploadCache, nextId, tempFiles, fileData>>

\* the function returns and st.cache_resource stores the result
\* (engine.py:39)
UpReturn(t) ==
    /\ threads[t].pc = "return"
    /\ uploadCache' =
          [uploadCache EXCEPT ![threads[t].blob] = threads[t].file_obj]
    /\ Goto(t, "returned")
    /\ UNCHANGED <<sessionVars, nextId, tempDir, tempFiles, fileData>>

NextUpload ==
    \/ \E t \in Sessions : UpMkdir(t)
    \/ \E t \in Sessions : UpOpen(t)
    \/ \E t \in Sessions : UpWrite(t)
    \/ \E t \in Sessions : UpUpload(t)
    \/ \E t \in Sessions : UpRemove(t)
    \/ \E t \in Sessions : UpListdir(t)
    \/ \E t \in Sessions : UpRmdir(t)
    \/ \E t \in Sessions : UpReturn(t)

SpecUpload == InitUpload /\ [][NextUpload]_vars

\* ------------------------------------------------ document_analyzer_app.py
\* The single-file variant of the application: initialize_client keeps the
\* client in st.session_state, and delete_uploaded_file is wrapped in
\* st.cache_resource. upload_document, process_document and
\* chat_with_document are the same code as in engine.py and app.py.

KeyErrorMsgMono == "GEMINI_API_KEY not found in Streamlit secrets."
CtorErrorMono == "str(e)"

\* initialize_client of document_analyzer_app.py (lines 9-33)
mono_initialize_client(w, ctor) ==
    IF "client" \in w.keys
    THEN [keys |-> w.keys, client |-> w.client, err |-> w.client_error,
          ctorCalls |-> w.ctorCalls, ran |-> FALSE]
    ELSE IF w.secret = Missing
         THEN [keys |-> w.keys \cup {"client", "client_error"},
               client |-> None, err |-> KeyErrorMsgMono,
               ctorCalls |-> w.ctorCalls, ran |-> TRUE]
         ELSE IF ctor = "ok"
              THEN [keys |-> w.keys \cup {"client"},
                    client |-> w.ctorCalls + 1, err |-> w.client_error,
                    ctorCalls |-> w.ctorCalls + 1, ran |-> TRUE]
              ELSE [keys |-> w.keys \cup {"client", "client_error"},
                    client |-> None, err |-> CtorErrorMono,
                    ctorCalls |-> w.ctorCalls + 1, ran |-> TRUE]

DeleteCacheHit(cache, h) == h \in cache

\* delete_uploaded_file of document_analyzer_app.py (lines 82-89): the
\* st.cache_resource wrapper, keyed by the file object; the body catches
\* every exception, so its (empty) result is stored whatever the request did
mono_delete_uploaded_file(cache, h, out) ==
    IF DeleteCacheHit(cache, h)
    THEN [calls |-> <<>>, cache |-> cache, ran |-> FALSE]
    ELSE [calls |-> delete_uploaded_file(h, out).calls,
          cache |-> cache \cup {h}, ran |-> TRUE]

\* the "Process Document" branch (lines 165-176)
MonoProcessClicked(w, e) ==
    LET prev == w.uploaded_file_object
        del == ShouldDeletePrevious(prev)
        d == IF del THEN mono_delete_uploaded_file(w.deleteCache, prev, e.del)
             ELSE [calls |-> <<>>, cache |-> w.deleteCache, ran |-> FALSE]
        w1 == [w EXCEPT !.calls = @ \o d.calls,
                        !.deleteCache = d.cache,
                        !.deleteAttempted = IF d.ran THEN @ \cup {prev} ELSE @,
                        !.ev.deletedBefore = del /\ prev \in w.deleteAttempted]
        u == upload_document(w1.uploadCache, w1.uploaded_file_input, e.up,
                             w1.nextId, w1.tempDir, w1.tempFiles)
        w2 == [w1 EXCEPT !.calls = @ \o u.calls,
                         !.uploadCache = u.cache,
                         !.nextId = u.nextId,
                         !.uploaded = @ \cup u.created,
                         !.tempDir = u.tempDir,
                         !.tempFiles = u.tempFiles,
                         !.ev.file_obj = u.file_obj,
                         !.ev.uploadCalled = TRUE,
                         !.ev.uploadRan = u.ran]
    IN IF UploadCompleted(u.file_obj)
       THEN [w |-> [w2 EXCEPT !.uploaded_file_object = u.file_obj,
                              !.keys = @ \cup {"messages"},
                              !.messages = <<>>,
                              !.cleanup_done = FALSE],
             rerun |-> TRUE]
       ELSE [w |-> chat_with_document(w2, e), rerun |-> FALSE]

\* the "Manually Delete File from API" branch (lines 183-189)
MonoManualDeleteClicked(w, e) ==
    LET prev == w.uploaded_file_object
        d == mono_delete_uploaded_file(w.deleteCache, prev, e.del)
    IN [w |-> [w EXCEPT !.calls = @ \o d.calls,
                        !.deleteCache = d.cache,
                        !.deleteAttempted = IF d.ran THEN @ \cup {prev} ELSE @,
                        !.ev.deletedBefore = prev \in w.deleteAttempted,
                        !.uploaded_file_object = None,
                        !.cleanup_done = TRUE,
                        !.keys = @ \cup {"messages"},
                        !.messages = <<>>],
        rerun |-> TRUE]

\* one run of main() of document_analyzer_app.py (lines 129-193)
MonoMainBody(w, e) ==
    LET ic == mono_initialize_client(w, e.ctor)
        w0 == [w EXCEPT !.keys = ic.keys,
                        !.client = ic.client,
                        !.client_error = ic.err,
                        !.ctorCalls = ic.ctorCalls,
                        !.ev.client = ic.client,
                        !.ev.err = ic.err,
                        !.ev.initRan = @ \/ ic.ran]
    IN IF ic.client = None
       THEN [w |-> [w0 EXCEPT !.page = "error"], rerun |-> FALSE]
       ELSE
       LET w1 == [w0 EXCEPT
                    !.keys = @ \cup {"uploaded_file_object", "cleanup_done"},
                    !.uploaded_file_object =
                        IF "uploaded_file_object" \in w0.keys THEN @ ELSE None,
                    !.cleanup_done =
                        IF "cleanup_done" \in w0.keys THEN @ ELSE FALSE,
                    !.uploaded_file_input =
                        IF e.kind = "select" THEN e.blob ELSE @,
                    !.page = "ui"]
       IN IF e.kind = "process" /\ w1.uploaded_file_input # None
          THEN MonoProcessClicked(w1, e)
          ELSE IF e.kind = "delete" /\ Truthy(w1.uploaded_file_object)
                  /\ ~w1.cleanup_done
               THEN MonoManualDeleteClicked(w1, e)
               ELSE [w |-> chat_with_document(w1, e), rerun |-> FALSE]

\* one UI event of document_analyzer_app.py
mono_main(w, e) ==
    LET r == MonoMainBody(w, e)
    IN IF r.rerun THEN MonoMainBody(r.w, Plain(e)).w ELSE r.w

\* the constructor is only reached when the session has no client entry
MonoCtorOutcomes ==
    IF "client" \in keys \/ secret = Missing THEN {"ok"} ELSE Outcomes

MonoNewSession ==
    /\ ctorCalls < MaxClients
    /\ \E ctor \in IF secret = Missing THEN {"ok"} ELSE Outcomes :
        Apply(mono_main([Start("session") EXCEPT
                             !.keys = {}, !.uploaded_file_object = None,
                             !.cleanup_done = FALSE, !.messages = <<>>,
                             !.uploaded_file_input = None, !.uploaded = {},
                             !.client = None, !.client_error = NoneText,
                             !.page = "none"],
                        Event("rerun", None, "", ctor, "ok", "ok", "ok")))

MonoRerun ==
    /\ page # "none"
    /\ \E ctor \in MonoCtorOutcomes :
        Apply(mono_main(Start("rerun"),
                        Event("rerun", None, "", ctor, "ok", "ok", "ok")))

MonoSelectFile ==
    /\ page = "ui"
    /\ \E b \in (Blobs \cup {None}) \ {uploaded_file_input},
          ctor \in MonoCtorOutcomes :
        Apply(mono_main(Start("select"),
                        Event("select", b, "", ctor, "ok", "ok", "ok")))

MonoProcessDocument ==
    /\ page = "ui"
    /\ uploaded_file_input # None
    /\ \E ctor \in MonoCtorOutcomes, del \in Outcomes, up \in Outcomes :
        Apply(mono_main(Start("process"),
                        Event("process", uploaded_file_input, "", ctor, del,
                              up, "ok")))

MonoChatTurn ==
    /\ page = "ui"
    /\ uploaded_file_object # None
    /\ Len(messages) < MaxMsgs
    /\ \E p \in Prompts, ctor \in MonoCtorOutcomes, gen \in GenOutcomes :
        Apply(mono_main(Start("chat"),
                        Event("chat", None, p, ctor, "ok", "ok", gen)))

MonoManualDelete ==
    /\ page = "ui"
    /\ uploaded_file_object # None
    /\ ~cleanup_done
    /\ \E ctor \in MonoCtorOutcomes, del \in Outcomes :
        Apply(mono_main(Start("delete"),
                        Event("delete", None, "", ctor, del, "ok", "ok")))

NextMono ==
    \/ SecretChange
    \/ MonoNewSession
    \/ MonoRerun
    \/ MonoSelectFile
    \/ MonoProcessDocument
    \/ MonoChatTurn
    \/ MonoManualDelete

SpecMono == Init /\ [][NextMono]_vars

\* ----------------------------------------------------------- properties

\* the requests of the last event sent to one endpoint
CallsOf(op) == SelectSeq(calls, LAMBDA c : c.op = op)

\* a step that is a UI event (every event leaves the secret alone, and a
\* change of the secret is no event)
EventStep == secret' = secret

BadSecret(api_key) == api_key \in {Missing, "", "YOUR_ACTUAL_API_KEY"}

\* C1: a Process Document event that starts with a handle H held issues
\* exactly one delete request, for H, and issues it before any upload
\* request of the same event.
C1_OneDeleteBeforeUpload ==
    (ev.kind = "process" /\ ev.prev_file # None) =>
        /\ Len(CallsOf("delete")) = 1
        /\ calls[1].op = "delete"
        /\ calls[1].h = ev.prev_file
        /\ \A i \in DOMAIN calls : calls[i].op = "upload" => i > 1

C1_Witness ==
    /\ ev.kind = "process"
    /\ ev.prev_file # None
    /\ Len(calls) = 2
    /\ calls[1].op = "delete" /\ calls[1].res = "raise"
    /\ calls[2].op = "upload"

\* C2: the session holds at most one handle, and every remote file this
\* session created that no delete request was issued for is the handle the
\* session holds now.
C2_NoHandleLeftBehind ==
    /\ uploaded_file_object \in {None} \cup (1..(nextId - 1))
    /\ \A h \in uploaded \ deleteAttempted : h = uploaded_file_object
    /\ Cardinality(uploaded \ deleteAttempted) <= 1

C2_Witness ==
    /\ Cardinality(uploaded) = 2
    /\ uploaded_file_object \in uploaded \ deleteAttempted
    /\ (uploaded \ {uploaded_file_object}) \subseteq deleteAttempted

\* C3: after a Process Document event whose upload returned a handle, the
\* message history is exactly the one assistant greeting.
C3_GreetingAfterUpload ==
    (ev.kind = "process" /\ ev.file_obj # None) =>
        messages = <<Msg("assistant", Greeting)>>

\* C4: a chat turn whose generation request raises appends the prompt and
\* the fixed fallback text (no null entry), does not abort, and leaves the
\* handle in place with the chat interface rendered.
C4_GenerationFailureIsFallback ==
    [][(EventStep /\ ev'.kind = "chat" /\ Len(calls') = 1
        /\ calls'[1].op = "generate" /\ calls'[1].res = "raise") =>
           /\ messages' = messages
                 \o <<Msg("user", calls'[1].prompt),
                      Msg("assistant", Fallback)>>
           /\ \A i \in DOMAIN messages' :
                 i > Len(messages) => messages'[i].content # NoneText
           /\ ~ev'.aborted
           /\ uploaded_file_object' = uploaded_file_object
           /\ uploaded_file_object' # None
           /\ page' = "ui"]_vars

\* a chat turn answered after an earlier turn of the same history failed
C4_Witness ==
    /\ ev.kind = "chat"
    /\ Len(messages) = 4
    /\ messages[2] = Msg("assistant", Fallback)
    /\ messages[4] = Msg("assistant", ResponseText)

C6_BadSecretAlwaysNull ==
    [][(EventStep /\ BadSecret(secret)) =>
           /\ ev'.client = None
           /\ ev'.err # NoneText
           /\ calls' = <<>>]_vars

\* C6 amended: whenever the body of initialize_client runs (no cached result)
\* while the secret is missing, empty or the placeholder, the result is a
\* null client and a non-empty message; and whenever initialize_client
\* returns a null client, main stops with the error page before any remote
\* request.
C6_BadSecretNullWhenInitialized ==
    [][EventStep =>
           /\ (BadSecret(secret) /\ ev'.initRan) =>
                 (ev'.client = None /\ ev'.err # NoneText)
           /\ ev'.client = None =>
                 (ev'.err # NoneText /\ calls' = <<>> /\ page' = "error"
                  /\ nextId' = nextId /\ deleteAttempted' = deleteAttempted)
      ]_vars

C6_Witness ==
    /\ ev.initRan
    /\ ev.client = None
    /\ ev.err = KeyErrorMsg
    /\ page = "error"
    /\ calls = <<>>
    /\ ctorCalls = 0

\* C7: a chat turn leaves the session's handle unchanged and sends exactly
\* that handle with its generation request; within a session the handle
\* changes only by a Process Document event whose upload_document returned
\* a handle (which becomes the new one) or by a manual delete.
C7_HandleStableAcrossChat ==
    [][EventStep =>
           /\ ev'.kind = "chat" =>
                 /\ uploaded_file_object' = uploaded_file_object
                 /\ Len(calls') = 1
                 /\ calls'[1].op = "generate"
                 /\ calls'[1].h = uploaded_file_object
           /\ (uploaded_file_object' # uploaded_file_object
               /\ ev'.kind # "session") =>
                 \/ /\ ev'.kind = "process"
                    /\ ev'.file_obj # None
                    /\ uploaded_file_object' = ev'.file_obj
                 \/ /\ ev'.kind = "delete"
                    /\ uploaded_file_object' = None
      ]_vars

\* the second chat turn of one history, sent with the handle still held
C7_Witness ==
    /\ ev.kind = "chat"
    /\ Len(messages) = 4
    /\ uploaded_file_object # None
    /\ calls[1].h = uploaded_file_object
    /\ ev.prev_file = uploaded_file_object

\* C8: delete_uploaded_file never raises into main; after a delete request
\* that raised, the Process Document event still calls upload_document, and
\* the manual delete still clears the handle and the history and sets the
\* cleanup flag.
C8_DeleteNeverBlocks ==
    /\ ~ev.aborted
    /\ (ev.kind = "process" /\ CallsOf("delete") # <<>>) => ev.uploadCalled
    /\ ev.kind = "delete" =>
          /\ Len(CallsOf("delete")) = 1
          /\ uploaded_file_object = None
          /\ cleanup_done
          /\ messages = <<>>

\* a replacement whose delete request raised, for a handle that a delete
\* request had been issued for before, and whose upload still went ahead
C8_Witness ==
    /\ ev.kind = "process"
    /\ ev.deletedBefore
    /\ calls[1].op = "delete" /\ calls[1].res = "raise"
    /\ ev.uploadCalled
    /\ ~ev.aborted

\* C9: a Process Document event whose upload request raises gets None from
\* upload_document and leaves the session's handle, message history and
\* cleanup flag as they were.
C9_FailedUploadStoresNothing ==
    [][(EventStep /\ ev'.kind = "process"
        /\ \E i \in DOMAIN calls' :
              calls'[i].op = "upload" /\ calls'[i].res = "raise") =>
           /\ ev'.file_obj = None
           /\ uploaded_file_object' = uploaded_file_object
           /\ messages' = messages
           /\ ("messages" \in keys') = ("messages" \in keys)
           /\ cleanup_done' = cleanup_done]_vars

\* a failed replacement: the old handle and a non-empty history are kept
C9_Witness ==
    /\ ev.kind = "process"
    /\ \E i \in DOMAIN calls : calls[i].op = "upload" /\ calls[i].res = "raise"
    /\ ev.file_obj = None
    /\ ev.prev_file # None
    /\ uploaded_file_object = ev.prev_file
    /\ messages # <<>>

\* C10: the client constructor is called at most once per process, and once
\* initialize_client has a cached result every later invocation returns
\* that result without running the body or the constructor.
C10_ClientConstructedOnce ==
    [][/\ ctorCalls' <= 1
       /\ clientCache.present =>
             /\ clientCache' = clientCache
             /\ ctorCalls' = ctorCalls
             /\ EventStep =>
                   (ev'.client = clientCache.client /\ ~ev'.initRan)
      ]_vars

\* a later event of a later session served by the client built once
C10_Witness ==
    /\ ctorCalls = 1
    /\ clientCache.present
    /\ ev.kind = "chat"
    /\ ~ev.initRan
    /\ ev.client = clientCache.client
    /\ ev.client # None

\* C11: once initialize_client has failed with the configuration error, a
\* later invocation in the same process made while the secret is valid
\* returns a non-null client.
C11_RecoversWhenSecretValid ==
    [][(EventStep /\ clientCache.present /\ clientCache.err = KeyErrorMsg
        /\ secret = ValidKey) => ev'.client # None]_vars

\* C12: when upload_document is invoked for a file it was invoked for
\* before, no upload request is issued and the result is the one of the
\* first invocation; the first invocation stores its result under the file.
C12_UploadMemoized ==
    [][(EventStep /\ ev'.uploadCalled) =>
           /\ uploadCache[uploaded_file_input] # Miss =>
                 /\ CallsOf("upload")' = <<>>
                 /\ ~ev'.uploadRan
                 /\ ev'.file_obj = uploadCache[uploaded_file_input]
                 /\ uploadCache' = uploadCache
                 /\ nextId' = nextId
           /\ uploadCache[uploaded_file_input] = Miss =>
                 /\ ev'.uploadRan
                 /\ uploadCache'[uploaded_file_input] = ev'.file_obj
      ]_vars

\* a second Process Document of the same file: the handle comes back
\* without an upload request
C12_Witness ==
    /\ ev.kind = "process"
    /\ ev.uploadCalled
    /\ ~ev.uploadRan
    /\ CallsOf("upload") = <<>>
    /\ ev.file_obj # None
    /\ ev.file_obj = uploadCache[uploaded_file_input]
    /\ uploaded_file_object = ev.file_obj

\* C13: an event sends at most one request to each remote endpoint: Process
\* Document at most one delete and at most one upload and nothing else, a
\* chat turn exactly one generate, a manual delete exactly one delete, and
\* any other script run none; so no failed request is sent again.
C13_NoRetry ==
    /\ \A op \in {"delete", "upload", "generate"} : Len(CallsOf(op)) <= 1
    /\ ev.kind = "process" => CallsOf("generate") = <<>>
    /\ ev.kind = "chat" =>
          (Len(calls) = 1 /\ calls[1].op = "generate")
    /\ ev.kind = "delete" =>
          (Len(calls) = 1 /\ calls[1].op = "delete")
    /\ ev.kind \notin {"process", "chat", "delete"} => calls = <<>>

\* a replacement whose delete request and upload request both failed
C13_Witness ==
    /\ ev.kind = "process"
    /\ Len(calls) = 2
    /\ calls[1].op = "delete" /\ calls[1].res = "raise"
    /\ calls[2].op = "upload" /\ calls[2].res = "raise"

\* C14: no generation request carries a handle that a delete request was
\* issued for.
C14_NoGenerateOnDeletedHandle ==
    \A i \in DOMAIN calls :
        calls[i].op = "generate" => calls[i].h \notin deleteAttempted

\* C16: after a manual delete the session holds no handle, the history is
\* empty and the cleanup flag is set, whatever the delete request did; in
\* every state a set cleanup flag means that no handle is held, and a
\* generation request is only sent with a handle and the flag cleared.
C16_ManualDeleteResets ==
    /\ ev.kind = "delete" =>
          /\ uploaded_file_object = None
          /\ "messages" \in keys
          /\ messages = <<>>
          /\ cleanup_done
    /\ cleanup_done => uploaded_file_object = None
    /\ \A i \in DOMAIN calls :
          calls[i].op = "generate" =>
              (calls[i].h # None /\ ~cleanup_done)

\* a manual delete from Ready whose delete request failed
C16_Witness ==
    /\ ev.kind = "delete"
    /\ ev.prev_file # None
    /\ Len(calls) = 1
    /\ calls[1].op = "delete" /\ calls[1].res = "raise"
    /\ uploaded_file_object = None
    /\ cleanup_done

\* C17: an event either leaves the message history as it is, or resets it
\* to empty (a Process Document whose upload_document returned a handle, a
\* manual delete, a new session), or, being a chat turn, appends to it the
\* user message with the prompt and then the assistant message with what
\* process_document returned for that turn.
C17_HistoryAppendOnly ==
    [][EventStep =>
           /\ ev'.kind = "chat" =>
                 /\ Len(calls') = 1
                 /\ messages' = messages \o
                       <<Msg("user", calls'[1].prompt),
                         Msg("assistant",
                             IF calls'[1].res = "raise" THEN Fallback
                             ELSE IF calls'[1].res = "none" THEN NoneText
                             ELSE ResponseText)>>
           /\ ev'.kind # "chat" =>
                 \/ messages' = messages
                 \/ /\ messages' = <<>>
                    /\ \/ ev'.kind = "process" /\ ev'.file_obj # None
                       \/ ev'.kind = "delete"
                       \/ ev'.kind = "session"
      ]_vars

\* two chat turns since the last reset, in order
C17_Witness ==
    /\ ev.kind = "chat"
    /\ Len(messages) = 4
    /\ \A i \in {1, 3} : messages[i].role = "user"
                           /\ messages[i].content \in Prompts
    /\ \A i \in {2, 4} : messages[i].role = "assistant"
    /\ messages[2].content = NoneText
    /\ messages[4].content = ResponseText

\* C15: when sessions run upload_document at the same time with different
\* files, every upload request sends the content of the session's own file,
\* and no invocation ends with an exception.
C15_ConcurrentUploadsIsolated ==
    \A t \in Sessions :
        /\ threads[t].pc # "raised"
        /\ threads[t].called => threads[t].sent = threads[t].blob

\* C18: in document_analyzer_app.py every invocation of
\* delete_uploaded_file with the held handle (on replacement and on manual
\* delete) issues a delete request for that handle.
C18_CachedDeleteStillDeletes ==
    (ev.kind = "delete" \/ (ev.kind = "process" /\ ev.prev_file # None)) =>
        /\ Len(CallsOf("delete")) = 1
        /\ CallsOf("delete")[1].h = ev.prev_file

====
